---- MODULE Spec2Model ----
(***************************************************************************)
(* Tabular Q-learning (src/q_learning.py): the epsilon-greedy policy       *)
(* function and the learning loop, run against an environment that is an   *)
(* external collaborator (reset / step / nA).                              *)
(*                                                                         *)
(* Real numbers (Q values, probabilities, alpha, discount_factor, epsilon) *)
(* are exact rationals <<numerator, denominator>> in lowest terms with a   *)
(* positive denominator. Arrays are functions over 0 .. n-1, as numpy      *)
(* indexes them. The defaultdict Q is a function whose DOMAIN is the set   *)
(* of keys stored so far.                                                  *)
(***************************************************************************)
EXTENDS Integers, FiniteSets, Sequences, TLC

VARIABLES
    \* arguments of q_learning and the environment handed to it
    nA, num_episodes, discount_factor, alpha, epsilon, envKind,
    \* the locals of q_learning
    Q, episode_lengths, episode_rewards, i_episode, i, state, action_probs,
    action, next_state, reward, done,
    \* where the run is, and the exception that ended it ("none" while running)
    pc, error,
    \* observation of the run: calls made to env.reset / env.step, Q updates
    \* applied, and per episode the env.step calls made, whether a step
    \* returned done, and whether a step returned a negative reward
    resetCalls, stepCalls, updates, epSteps, epDone, epNeg

vars == <<nA, num_episodes, discount_factor, alpha, epsilon, envKind,
          Q, episode_lengths, episode_rewards, i_episode, i, state,
          action_probs, action, next_state, reward, done, pc, error,
          resetCalls, stepCalls, updates, epSteps, epDone, epNeg>>

params == <<nA, num_episodes, discount_factor, alpha, epsilon, envKind>>

observed == <<resetCalls, stepCalls, updates, epSteps, epDone, epNeg>>

----------------------------------------------------------------------------
(* Bounds of the model *)

\* env.step calls a run may make before the model stops following it
MaxSteps == 2

\* largest action count the policy function is queried with on its own
MaxNA == 3

\* the population np.random.choice draws from (line 73)
SampleSpace == 4

States == {0, 1}

Rewards == {-1, 1}

EpisodeCounts == {1, 2}

ActionCounts == {2, 4}

----------------------------------------------------------------------------
(* Exact rational arithmetic *)

Abs(x) == IF x < 0 THEN -x ELSE x

RECURSIVE GCD(_, _)
GCD(a, b) == IF b = 0 THEN a ELSE GCD(b, a % b)

Norm(n, d) ==
    LET g == GCD(Abs(n), d)
    IN  <<n \div g, d \div g>>

FromInt(n) == <<n, 1>>

Zero == FromInt(0)

One == FromInt(1)

RAdd(x, y) == Norm(x[1] * y[2] + y[1] * x[2], x[2] * y[2])

RSub(x, y) == Norm(x[1] * y[2] - y[1] * x[2], x[2] * y[2])

RMul(x, y) == Norm(x[1] * y[1], x[2] * y[2])

RDivInt(x, k) == Norm(x[1], x[2] * k)

RLt(x, y) == x[1] * y[2] < y[1] * x[2]

RLe(x, y) == x[1] * y[2] <= y[1] * x[2]

----------------------------------------------------------------------------
(* numpy and defaultdict *)

\* np.zeros(n)
Zeros(n) == [a \in 0 .. n - 1 |-> Zero]

\* np.ones(n)
Ones(n) == [a \in 0 .. n - 1 |-> One]

\* len(array)
Size(arr) == Cardinality(DOMAIN arr)

\* np.argmax(row): a left-to-right scan that keeps the first maximum
RECURSIVE ArgMaxFrom(_, _, _)
ArgMaxFrom(row, k, best) ==
    IF k >= Size(row) THEN best
    ELSE IF RLt(row[best], row[k]) THEN ArgMaxFrom(row, k + 1, k)
    ELSE ArgMaxFrom(row, k + 1, best)

\* np.argmax that keeps the last maximum instead of the first
RECURSIVE ArgMaxLastFrom(_, _, _)
ArgMaxLastFrom(row, k, best) ==
    IF k >= Size(row) THEN best
    ELSE IF RLe(row[best], row[k]) THEN ArgMaxLastFrom(row, k + 1, k)
    ELSE ArgMaxLastFrom(row, k + 1, best)

ArgMaxLast(row) == ArgMaxLastFrom(row, 1, 0)

ArgMax(row) == ArgMaxFrom(row, 1, 0)

\* Q[key] on defaultdict(lambda: np.zeros(env.nA)): a missing key is stored
\* with the default vector before its value is handed out
\* a lookup that stores a fresh default vector even for a key already stored
TouchOverwrites(Qt, n, key) ==
    [k \in DOMAIN Qt \cup {key} |-> IF k = key THEN Zeros(n) ELSE Qt[k]]

Touch(Qt, n, key) ==
    IF key \in DOMAIN Qt THEN Qt
    ELSE [k \in DOMAIN Qt \cup {key} |-> IF k = key THEN Zeros(n) ELSE Qt[k]]

----------------------------------------------------------------------------
(* make_epsilon_greedy_policy *)

\* policy_fn(observation), given the row Q[observation]
policy_fn(row, eps, n) ==
    LET policy == [a \in 0 .. n - 1 |-> RMul(Ones(n)[a], RDivInt(eps, n))]
        best_action == ArgMax(row)
    IN  [policy EXCEPT ![best_action] = RAdd(@, RSub(One, eps))]

----------------------------------------------------------------------------
(* The environment collaborator: reset() and step(action).                 *)
(* "any" is an arbitrary environment over States and Rewards, which may     *)
(* raise; "det2" is the deterministic 2-state, 2-action environment: from   *)
(* state 0, action 0 goes to state 1 with reward 1 and done, action 1 stays *)
(* in state 0 with reward 0 and not done.                                   *)

EnvKinds(n) == IF n = 2 THEN {"any", "det2"} ELSE {"any"}

EnvResetStates(kind) == IF kind = "det2" THEN {0} ELSE States

EnvStepOutcomes(kind, s, a) ==
    IF kind = "det2"
    THEN IF s = 0 /\ a = 0 THEN {<<1, 1, TRUE>>}
         ELSE IF s = 0 /\ a = 1 THEN {<<0, 0, FALSE>>}
         ELSE {<<s, 0, TRUE>>}
    ELSE States \X Rewards \X BOOLEAN

EnvMayRaise(kind) == kind = "any"

----------------------------------------------------------------------------
(* q_learning *)

Alphas == {<<1, 2>>}

Discounts == {<<1, 1>>, <<1, 2>>}

Epsilons == {<<0, 1>>, <<1, 10>>}

\* statistics arrays allocated one entry too long
StatsZerosLong(n) == [e \in 0 .. n |-> 0]

\* stats = EpisodeStats(np.zeros(num_episodes), np.zeros(num_episodes))
StatsZeros(n) == [e \in 0 .. n - 1 |-> 0]

\* a target that bootstraps from the first action of next_state, not the best
TDTargetFirst(r, g, nextRow) == RAdd(FromInt(r), RMul(g, nextRow[0]))

\* reward + discount_factor * np.max(Q[next_state][best_next_action]),
\* best_next_action = np.argmax(Q[next_state])
TDTarget(r, g, nextRow) ==
    LET best_next_action == ArgMax(nextRow)
    IN  RAdd(FromInt(r), RMul(g, nextRow[best_next_action]))

\* Q[state][action] += alpha * (target - Q[state][action])
TDUpdate(old, al, target) == RAdd(old, RMul(al, RSub(target, old)))

\* an exception caught inside the episode loop, the episode tried again
RaiseRetried(e) ==
    /\ pc' = "reset"
    /\ error' = e

\* an exception nothing in q_learning catches: the run ends with it
Raise(e) ==
    /\ pc' = "raised"
    /\ error' = e

Init ==
    /\ nA \in ActionCounts
    /\ envKind \in EnvKinds(nA)
    /\ num_episodes \in EpisodeCounts
    /\ discount_factor \in Discounts
    /\ alpha \in Alphas
    /\ epsilon \in Epsilons
    /\ Q = <<>>
    /\ episode_lengths = StatsZeros(num_episodes)
    /\ episode_rewards = StatsZeros(num_episodes)
    /\ i_episode = 0
    /\ i = 0
    /\ state = -1
    /\ action_probs = <<>>
    /\ action = -1
    /\ next_state = -1
    /\ reward = 0
    /\ done = FALSE
    /\ pc = "reset"
    /\ error = "none"
    /\ resetCalls = 0
    /\ stepCalls = 0
    /\ updates = 0
    /\ epSteps = [e \in 0 .. num_episodes - 1 |-> 0]
    /\ epDone = [e \in 0 .. num_episodes - 1 |-> FALSE]
    /\ epNeg = [e \in 0 .. num_episodes - 1 |-> FALSE]

\* state = env.reset(), then the first iteration of itertools.count()
EnvReset ==
    /\ pc = "reset"
    /\ \E s \in EnvResetStates(envKind) : state' = s
    /\ i' = 0
    /\ pc' = "policy"
    /\ resetCalls' = resetCalls + 1
    /\ UNCHANGED <<params, Q, episode_lengths, episode_rewards, i_episode,
                   action_probs, action, next_state, reward, done, error,
                   stepCalls, updates, epSteps, epDone, epNeg>>

\* env.reset() raises
EnvResetRaises ==
    /\ pc = "reset"
    /\ EnvMayRaise(envKind)
    /\ Raise("env")
    /\ resetCalls' = resetCalls + 1
    /\ UNCHANGED <<params, Q, episode_lengths, episode_rewards, i_episode, i,
                   state, action_probs, action, next_state, reward, done,
                   stepCalls, updates, epSteps, epDone, epNeg>>

\* action_probs = policy(state)
PolicyQuery ==
    /\ pc = "policy"
    /\ Q' = Touch(Q, nA, state)
    /\ action_probs' = policy_fn(Q'[state], epsilon, nA)
    /\ pc' = "sample"
    /\ UNCHANGED <<params, episode_lengths, episode_rewards, i_episode, i,
                   state, action, next_state, reward, done, error, observed>>

\* action = np.random.choice(4, p=action_probs): any action of 0 .. 3 that p
\* gives a positive probability
SampleAction ==
    /\ pc = "sample"
    /\ Size(action_probs) = SampleSpace
    /\ \E a \in 0 .. SampleSpace - 1 :
          /\ RLt(Zero, action_probs[a])
          /\ action' = a
    /\ pc' = "step"
    /\ UNCHANGED <<params, Q, episode_lengths, episode_rewards, i_episode, i,
                   state, action_probs, next_state, reward, done, error,
                   observed>>

\* np.random.choice(4, p=action_probs) with len(p) != 4: ValueError
SampleRaises ==
    /\ pc = "sample"
    /\ Size(action_probs) # SampleSpace
    /\ Raise("ValueError")
    /\ UNCHANGED <<params, Q, episode_lengths, episode_rewards, i_episode, i,
                   state, action_probs, action, next_state, reward, done,
                   observed>>

\* next_state, reward, done, prob = env.step(action)
EnvStep ==
    /\ pc = "step"
    /\ stepCalls < MaxSteps
    /\ \E out \in EnvStepOutcomes(envKind, state, action) :
          /\ next_state' = out[1]
          /\ reward' = out[2]
          /\ done' = out[3]
          /\ epDone' = [epDone EXCEPT ![i_episode] = out[3]]
          /\ epNeg' = [epNeg EXCEPT ![i_episode] = @ \/ out[2] < 0]
    /\ stepCalls' = stepCalls + 1
    /\ epSteps' = [epSteps EXCEPT ![i_episode] = @ + 1]
    /\ pc' = "update"
    /\ UNCHANGED <<params, Q, episode_lengths, episode_rewards, i_episode, i,
                   state, action_probs, action, error, resetCalls, updates>>

\* env.step(action) raises
EnvStepRaises ==
    /\ pc = "step"
    /\ stepCalls < MaxSteps
    /\ EnvMayRaise(envKind)
    /\ Raise("env")
    /\ stepCalls' = stepCalls + 1
    /\ epSteps' = [epSteps EXCEPT ![i_episode] = @ + 1]
    /\ UNCHANGED <<params, Q, episode_lengths, episode_rewards, i_episode, i,
                   state, action_probs, action, next_state, reward, done,
                   resetCalls, updates, epDone, epNeg>>

\* lines 76-82: best_next_action, the statistics, the update of Q[state][action]
Update ==
    /\ pc = "update"
    /\ LET Q1 == Touch(Q, nA, next_state)
           target == TDTarget(reward, discount_factor, Q1[next_state])
       IN  Q' = [Q1 EXCEPT ![state][action] = TDUpdate(@, alpha, target)]
    /\ episode_rewards' = [episode_rewards EXCEPT ![i_episode] = @ + reward]
    /\ episode_lengths' = [episode_lengths EXCEPT ![i_episode] = i]
    /\ updates' = updates + 1
    /\ pc' = "check"
    /\ UNCHANGED <<params, i_episode, i, state, action_probs, action,
                   next_state, reward, done, error, resetCalls, stepCalls,
                   epSteps, epDone, epNeg>>

\* a done flag that is not acted on: the episode goes on stepping
BreakMissing ==
    /\ pc = "check"
    /\ done
    /\ state' = next_state
    /\ i' = i + 1
    /\ pc' = "policy"
    /\ UNCHANGED <<params, Q, episode_lengths, episode_rewards, i_episode,
                   action_probs, action, next_state, reward, done, error,
                   observed>>

\* if done: break, and the next turn of range(num_episodes)
Break ==
    /\ pc = "check"
    /\ done
    /\ i_episode' = i_episode + 1
    /\ pc' = IF i_episode + 1 < num_episodes THEN "reset" ELSE "return"
    /\ UNCHANGED <<params, Q, episode_lengths, episode_rewards, i, state,
                   action_probs, action, next_state, reward, done, error,
                   observed>>

\* state = next_state, and the next turn of itertools.count()
Continue ==
    /\ pc = "check"
    /\ ~done
    /\ state' = next_state
    /\ i' = i + 1
    /\ pc' = "policy"
    /\ UNCHANGED <<params, Q, episode_lengths, episode_rewards, i_episode,
                   action_probs, action, next_state, reward, done, error,
                   observed>>

\* return Q, stats
Return ==
    /\ pc = "return"
    /\ pc' = "returned"
    /\ UNCHANGED <<params, Q, episode_lengths, episode_rewards, i_episode, i,
                   state, action_probs, action, next_state, reward, done,
                   error, observed>>

Next ==
    \/ EnvReset
    \/ EnvResetRaises
    \/ PolicyQuery
    \/ SampleAction
    \/ SampleRaises
    \/ EnvStep
    \/ EnvStepRaises
    \/ Update
    \/ Break
    \/ Continue
    \/ Return

Spec == Init /\ [][Next]_vars

----------------------------------------------------------------------------
(* The policy function on its own: make_epsilon_greedy_policy(Q, epsilon,  *)
(* nA) built over any table Q, then queried for any state, any number of   *)
(* times.                                                                  *)

QValues == {<<-1, 1>>, <<0, 1>>, <<1, 2>>}

PolicyEpsilons == {<<0, 1>>, <<1, 10>>, <<1, 1>>}

QTables(n) == UNION {[D -> [0 .. n - 1 -> QValues]] : D \in SUBSET States}

PolicyInit ==
    /\ nA \in 1 .. MaxNA
    /\ epsilon \in PolicyEpsilons
    /\ Q \in QTables(nA)
    /\ envKind = "any"
    /\ num_episodes = 1
    /\ discount_factor = One
    /\ alpha = <<1, 2>>
    /\ episode_lengths = StatsZeros(num_episodes)
    /\ episode_rewards = StatsZeros(num_episodes)
    /\ i_episode = 0
    /\ i = 0
    /\ state = -1
    /\ action_probs = <<>>
    /\ action = -1
    /\ next_state = -1
    /\ reward = 0
    /\ done = FALSE
    /\ pc = "call"
    /\ error = "none"
    /\ resetCalls = 0
    /\ stepCalls = 0
    /\ updates = 0
    /\ epSteps = [e \in 0 .. num_episodes - 1 |-> 0]
    /\ epDone = [e \in 0 .. num_episodes - 1 |-> FALSE]
    /\ epNeg = [e \in 0 .. num_episodes - 1 |-> FALSE]

\* policy_fn(observation) for any observation
PolicyCall ==
    /\ pc \in {"call", "queried"}
    /\ \E s \in States :
          /\ state' = s
          /\ Q' = Touch(Q, nA, s)
          /\ action_probs' = policy_fn(Q'[s], epsilon, nA)
    /\ pc' = "queried"
    /\ UNCHANGED <<params, episode_lengths, episode_rewards, i_episode, i,
                   action, next_state, reward, done, error, observed>>

PolicySpec == PolicyInit /\ [][PolicyCall]_vars

----------------------------------------------------------------------------
(* What the claims speak of *)

\* the vector a lookup of Q[s] yields: the stored one, or zeros for a new key
Lookup(Qt, n, s) == IF s \in DOMAIN Qt THEN Qt[s] ELSE Zeros(n)

\* the largest entry of a vector
MaxOf(row) ==
    CHOOSE v \in {row[a] : a \in DOMAIN row} :
        \A a \in DOMAIN row : RLe(row[a], v)

\* the lowest index among the entries that are largest
Greedy(row) ==
    CHOOSE a \in DOMAIN row :
        /\ \A b \in DOMAIN row : RLe(row[b], row[a])
        /\ \A b \in DOMAIN row : b < a => RLt(row[b], row[a])

\* p[0] + ... + p[k-1]
RECURSIVE SumTo(_, _)
SumTo(p, k) == IF k = 0 THEN Zero ELSE RAdd(SumTo(p, k - 1), p[k - 1])

Episodes == 0 .. num_episodes - 1

\* the environment has raised
EnvFailed == error = "env"

\* the run waits on an env.step call the model does not follow
BeyondModel == pc = "step" /\ stepCalls >= MaxSteps

----------------------------------------------------------------------------
(* C1: for every positive action count nA, the draw of the action never   *)
(* fails and every action handed to env.step is an integer of 0 .. nA-1.  *)
C1_SampledActionInRange ==
    /\ error # "ValueError"
    /\ pc \in {"step", "update", "check"} => action \in 0 .. nA - 1

(* C2: every update step leaves Q[s][a] = old + alpha * (r +              *)
(* discount_factor * m - old), old being Q[s][a] and m the largest entry   *)
(* of Q[s'] before the step, also when s' = s and on the done step.        *)
C2_UpdateRule ==
    [][pc = "update" =>
          LET old == Q[state][action]
              m == MaxOf(Lookup(Q, nA, next_state))
              bracket == RSub(RAdd(FromInt(reward), RMul(discount_factor, m)),
                              old)
          IN  Q'[state][action] = RAdd(old, RMul(alpha, bracket))]_vars

C2_Witness ==
    /\ pc = "check"
    /\ i >= 1
    /\ next_state = state
    /\ done
    /\ updates = 2
    /\ Q[state][action] \notin {Zero, <<1, 2>>, <<-1, 2>>}

(* C3: the distribution policy_fn returns has exactly nA non-negative      *)
(* entries that sum to 1: epsilon/nA on every action but the greedy one,   *)
(* epsilon/nA + (1 - epsilon) on the greedy one, which is the lowest index *)
(* among the maximisers of Q[s]; epsilon = 0 gives 1 on it and 0           *)
(* elsewhere, epsilon = 1 gives 1/nA everywhere.                           *)
C3_PolicyDistribution ==
    pc = "queried" =>
        LET p == action_probs
            g == Greedy(Q[state])
            share == Norm(epsilon[1], epsilon[2] * nA)
        IN  /\ DOMAIN p = 0 .. nA - 1
            /\ \A a \in DOMAIN p : RLe(Zero, p[a])
            /\ SumTo(p, nA) = One
            /\ \A a \in DOMAIN p :
                  p[a] = IF a = g THEN RAdd(share, RSub(One, epsilon))
                         ELSE share
            /\ epsilon = Zero =>
                  \A a \in DOMAIN p : p[a] = IF a = g THEN One ELSE Zero
            /\ epsilon = One => \A a \in DOMAIN p : p[a] = Norm(1, nA)

C3_Witness ==
    /\ pc = "queried"
    /\ nA = 3
    /\ epsilon = <<1, 10>>
    /\ Q[state][1] = Q[state][2]
    /\ RLt(Q[state][0], Q[state][1])
    /\ action_probs[1] = <<14, 15>>

(* C4, as claimed: a query of the policy function, also for a state not    *)
(* stored in Q yet, leaves the set of stored states and every stored       *)
(* vector as they were.                                                    *)
C4_PolicyQueryLeavesQ == [][pc = "policy" => Q' = Q]_vars

(* C4, amended: a query of the policy function leaves every stored vector  *)
(* and the vector a lookup of any state yields as they were; the queried   *)
(* state, when not stored yet, becomes stored with the zero vector.        *)
C4_PolicyQueryKeepsValues ==
    [][pc = "policy" =>
          /\ DOMAIN Q' = DOMAIN Q \cup {state}
          /\ \A s \in DOMAIN Q : Q'[s] = Q[s]
          /\ \A s \in States : Lookup(Q', nA, s) = Lookup(Q, nA, s)]_vars

C4_Witness ==
    /\ pc = "sample"
    /\ i_episode = 1
    /\ i = 0
    /\ state = 1
    /\ epSteps[0] = 1
    /\ next_state = 0
    /\ Q[1] = Zeros(nA)
    /\ Q[0] # Zeros(nA)

(* C5: once episode e has ended, episode_lengths[e] is the number of       *)
(* env.step calls made during episode e.                                   *)
C5_LengthIsStepCount ==
    \A e \in Episodes :
        (e < i_episode /\ epDone[e]) => episode_lengths[e] = epSteps[e]

(* C6, as claimed: after a full run both statistics have num_episodes      *)
(* entries and every entry of both is non-negative.                        *)
C6_StatsNonNegative ==
    pc = "returned" =>
        /\ Size(episode_lengths) = num_episodes
        /\ Size(episode_rewards) = num_episodes
        /\ \A e \in DOMAIN episode_lengths : episode_lengths[e] >= 0
        /\ \A e \in DOMAIN episode_rewards : episode_rewards[e] >= 0

(* C6, amended: after a full run both statistics have num_episodes         *)
(* entries, every entry of episode_lengths is non-negative, and            *)
(* episode_rewards[e] is non-negative for every episode e in which no step *)
(* returned a negative reward.                                             *)
C6_StatsShape ==
    pc = "returned" =>
        /\ Size(episode_lengths) = num_episodes
        /\ Size(episode_rewards) = num_episodes
        /\ DOMAIN episode_lengths = Episodes
        /\ DOMAIN episode_rewards = Episodes
        /\ \A e \in Episodes : episode_lengths[e] >= 0
        /\ \A e \in Episodes : ~epNeg[e] => episode_rewards[e] >= 0

C6_Witness ==
    /\ pc = "returned"
    /\ num_episodes = 2
    /\ epNeg[0]
    /\ episode_rewards[0] < 0
    /\ ~epNeg[1]
    /\ episode_rewards[1] > 0

(* C7: against the deterministic 2-state, 2-action environment the run     *)
(* does not fail, and after every completed episode Q[0][0] > Q[0][1].     *)
C7_Det2PrefersAction0 ==
    envKind = "det2" =>
        /\ error = "none"
        /\ i_episode >= 1 => (0 \in DOMAIN Q /\ RLt(Q[0][1], Q[0][0]))

(* C8: once env.reset or env.step has raised, the run is over with that    *)
(* error: no further env.reset or env.step call, no next episode, no       *)
(* (Q, stats) returned.                                                    *)
C8_EnvErrorAborts ==
    /\ [](EnvFailed => pc = "raised")
    /\ [][EnvFailed =>
             /\ resetCalls' = resetCalls
             /\ stepCalls' = stepCalls
             /\ i_episode' = i_episode
             /\ error' = error
             /\ pc' = "raised"]_vars

C8_Witness ==
    /\ EnvFailed
    /\ pc = "raised"
    /\ updates = 1
    /\ stepCalls = 2
    /\ i_episode = 1

(* C9: each episode begins with exactly one env.reset; every env.step      *)
(* comes after that reset and after the Q update of the previous step; no  *)
(* env.step follows a done step within an episode; the environment call    *)
(* after a done step is the next episode's env.reset; a complete run makes *)
(* exactly num_episodes env.reset calls.                                   *)
C9_EpisodeStateMachine ==
    /\ [](pc \in {"policy", "sample", "step", "update", "check"} =>
             resetCalls = i_episode + 1)
    /\ [](pc \in {"reset", "return", "returned"} => resetCalls = i_episode)
    /\ [](pc = "returned" => resetCalls = num_episodes)
    /\ [][stepCalls' # stepCalls =>
             /\ stepCalls' = stepCalls + 1
             /\ resetCalls' = resetCalls
             /\ resetCalls = i_episode + 1
             /\ updates = stepCalls
             /\ ~epDone[i_episode]]_vars
    /\ [][resetCalls' # resetCalls =>
             /\ resetCalls' = resetCalls + 1
             /\ stepCalls' = stepCalls
             /\ resetCalls = i_episode
             /\ i_episode < num_episodes
             /\ updates = stepCalls
             /\ i_episode > 0 => epDone[i_episode - 1]]_vars

C9_Witness ==
    /\ pc = "returned"
    /\ num_episodes = 2
    /\ resetCalls = 2
    /\ stepCalls = 2
    /\ epDone[0]
    /\ epDone[1]

(* C10: as long as the environment neither raises nor withholds done, the  *)
(* run goes on until it has returned (Q, stats): it never stops anywhere   *)
(* else.                                                                   *)
C10_RunGoesOnToReturn ==
    (~EnvFailed /\ ~BeyondModel) => (pc = "returned" \/ ENABLED Next)

====
